---- MODULE Spec2Model ----
(***************************************************************************)
(* Model of the XEITIN diffuser BLE client.                                *)
(*                                                                         *)
(*   - the protocol codec (const.build_packet, xeitin_diffuser             *)
(*     ._build_packet) and the precomputed command catalog of const.py;    *)
(*   - the Home Assistant device session XEITINBLEDevice.send_command      *)
(*     (switch.py) and the entity setters of switch.py, number.py and      *)
(*     select.py that call it from concurrent asyncio tasks;              *)
(*   - the standalone client XEITINDiffuser (xeitin_diffuser.py);          *)
(*   - the config flow (config_flow.py) and the platform setups.           *)
(*                                                                         *)
(* Spec          : the device session driven by concurrent entity setters. *)
(* DeviceSpec    : Spec for a session constructed by the switch setup.     *)
(* QueueSpec     : the session with several callers waiting for the lock.  *)
(* FairQueueSpec : QueueSpec with transport operations that always end.    *)
(* CodecSpec     : the codec applied to inputs drawn from bounded sets.    *)
(* ClientSpec    : the standalone client driven by one script.             *)
(* SetupSpec     : configuration of one device and setup of its platforms. *)
(***************************************************************************)
EXTENDS Integers, Sequences, FiniteSets, TLC

(***************************************************************************)
(* Bounds of the model.                                                    *)
(***************************************************************************)
\* number of setter invocations in one behaviour; each runs in a host task of
\* its own and any number of them may be in flight together
MaxCalls == 2
\* longest exhaustively enumerated codec payload
MaxShortLen == 2

\* number of power and fan-boost commands the host issues in the queueing
\* specification
MaxQueueCalls == 3

\* The invocations are numbered in the order in which the host makes them.
Tasks == 1..MaxCalls
QueueTasks == 1..MaxQueueCalls

(***************************************************************************)
(* Protocol codec.                                                         *)
(***************************************************************************)
HEADER == <<85, 170>>
FOOTER == <<90>>

\* Python exceptions are modelled by their class name; a pure function that
\* raises e has the result Raised(e) in place of a frame.
ValueError == "ValueError"
KeyError == "KeyError"
BleakError == "BleakError"
TimeoutError == "TimeoutError"

Raised(e) == <<e>>

IsByte(x) == x \in 0..255

\* s[lo] + ... + s[hi], by halves
RECURSIVE SumRange(_, _, _)
SumRange(s, lo, hi) ==
    IF lo > hi THEN 0
    ELSE IF lo = hi THEN s[lo]
    ELSE LET mid == (lo + hi) \div 2
         IN  SumRange(s, lo, mid) + SumRange(s, mid + 1, hi)

\* sum(data) of Python
SumBytes(s) == SumRange(s, 1, Len(s))

\* x & 0xFF on a Python int (two's complement of unbounded width)
And0xFF(x) == x % 256

\* const.build_packet with the command byte left out of the checksum, as the
\* packet-structure docstring of xeitin_diffuser.py writes the formula
build_packet_nocmd(cmd, data) ==
    LET length == 1 + Len(data)
    IN  IF ~(IsByte(length) /\ IsByte(cmd))
        THEN Raised(ValueError)
        ELSE LET payload == <<length, cmd>> \o data
                 checksum == And0xFF(257 - length - SumBytes(data))
             IN  HEADER \o payload \o <<checksum>> \o FOOTER

\* const.build_packet with a length byte that counts the payload only and
\* forgets the command byte
build_packet_lenonly(cmd, data) ==
    LET length == Len(data)
    IN  IF ~(IsByte(length) /\ IsByte(cmd))
        THEN Raised(ValueError)
        ELSE LET payload == <<length, cmd>> \o data
                 checksum == And0xFF(257 - length - cmd - SumBytes(data))
             IN  HEADER \o payload \o <<checksum>> \o FOOTER

\* const.build_packet with the length masked to one byte (length & 0xFF)
\* before it is packed, so that an overlong payload wraps instead of raising
build_packet_wraplen(cmd, data) ==
    LET length == And0xFF(1 + Len(data))
    IN  IF ~(IsByte(length) /\ IsByte(cmd))
        THEN Raised(ValueError)
        ELSE LET payload == <<length, cmd>> \o data
                 checksum == And0xFF(257 - length - cmd - SumBytes(data))
             IN  HEADER \o payload \o <<checksum>> \o FOOTER

\* const.build_packet: bytes([length, cmd]) raises ValueError when one of
\* the two is not in range(0, 256)
build_packet(cmd, data) ==
    LET length == 1 + Len(data)
    IN  IF ~(IsByte(length) /\ IsByte(cmd))
        THEN Raised(ValueError)
        ELSE LET payload == <<length, cmd>> \o data
                 checksum == And0xFF(257 - length - cmd - SumBytes(data))
             IN  HEADER \o payload \o <<checksum>> \o FOOTER

\* _calculate_checksum by the formula of the module docstring of
\* xeitin_diffuser.py, (0x101 - len - sum(data)) & 0xFF: the command byte,
\* second of the bytes it is given, is left out
calculate_checksum_docstring(data) == And0xFF(257 - data[1] - SumRange(data, 3, Len(data)))

\* xeitin_diffuser._calculate_checksum over length + command + payload
calculate_checksum(data) == And0xFF(257 - SumBytes(data))

\* xeitin_diffuser._build_packet
lib_build_packet(cmd, data) ==
    LET length == 1 + Len(data)
    IN  IF ~(IsByte(length) /\ IsByte(cmd))
        THEN Raised(ValueError)
        ELSE LET payload == <<length, cmd>> \o data
                 checksum == calculate_checksum(payload)
             IN  HEADER \o payload \o <<checksum>> \o FOOTER

\* Results of parse_frame: the parsed command and payload, or a ParseError
\* with its reason.
Parsed(cmd, data) == [ok |-> TRUE, reason |-> "none", cmd |-> cmd, payload |-> data]
ParseError(reason) == [ok |-> FALSE, reason |-> reason, cmd |-> 0, payload |-> <<>>]

\* parse_frame of the protocol description: a received byte string is a frame
\* when it has header 55 AA, footer 5A, a length byte that counts the command
\* and the payload, and a checksum for which length + command + payload +
\* checksum is 1 mod 256.
parse_frame(f) ==
    IF Len(f) < 6 THEN ParseError("Truncated")
    ELSE IF SubSeq(f, 1, 2) # HEADER THEN ParseError("BadHeader")
    ELSE IF <<f[Len(f)]>> # FOOTER THEN ParseError("BadFooter")
    ELSE IF f[3] # Len(f) - 5 THEN ParseError("Truncated")
    ELSE IF (SumRange(f, 3, Len(f) - 1)) % 256 # 1 THEN ParseError("ChecksumMismatch")
    ELSE Parsed(f[4], SubSeq(f, 5, Len(f) - 2))

(***************************************************************************)
(* Command bytes and the precomputed frames of const.py.                   *)
(***************************************************************************)
CMD_INIT == 71
CMD_GET_STATUS == 8
CMD_POWER == 7
CMD_KEEPALIVE == 161
CMD_MODE == 2
CMD_FAN_BOOST == 3
CMD_LOCK == 4
CMD_INTENSITY == 5
CMD_TIMER == 6
\* xeitin_diffuser.Command.GET_INFO
CMD_GET_INFO == 81

PACKET_INIT == <<85, 170, 1, 71, 185, 90>>
PACKET_POWER_ON == <<85, 170, 4, 7, 16, 1, 229, 90>>
PACKET_POWER_OFF == <<85, 170, 4, 7, 16, 0, 230, 90>>
PACKET_GET_STATUS == <<85, 170, 1, 8, 248, 90>>
PACKET_KEEPALIVE == <<85, 170, 1, 161, 95, 90>>
PACKET_MODE_1 == <<85, 170, 2, 2, 1, 252, 90>>
PACKET_MODE_2 == <<85, 170, 2, 2, 2, 251, 90>>
PACKET_MODE_3 == <<85, 170, 2, 2, 3, 250, 90>>
PACKET_MODE_4 == <<85, 170, 2, 2, 4, 249, 90>>
PACKET_MODE_5 == <<85, 170, 2, 2, 5, 248, 90>>
PACKET_FAN_BOOST_ON == <<85, 170, 2, 3, 1, 251, 90>>
PACKET_FAN_BOOST_OFF == <<85, 170, 2, 3, 0, 252, 90>>
PACKET_LOCK_ON == <<85, 170, 2, 4, 1, 250, 90>>
PACKET_LOCK_OFF == <<85, 170, 2, 4, 0, 251, 90>>

\* dict level -> frame
INTENSITY_PACKETS ==
    (1 :> <<85, 170, 2, 5, 1, 249, 90>>) @@ (2 :> <<85, 170, 2, 5, 2, 248, 90>>) @@
    (3 :> <<85, 170, 2, 5, 3, 247, 90>>) @@ (4 :> <<85, 170, 2, 5, 4, 246, 90>>) @@
    (5 :> <<85, 170, 2, 5, 5, 245, 90>>) @@ (6 :> <<85, 170, 2, 5, 6, 244, 90>>) @@
    (7 :> <<85, 170, 2, 5, 7, 243, 90>>) @@ (8 :> <<85, 170, 2, 5, 8, 242, 90>>) @@
    (9 :> <<85, 170, 2, 5, 9, 241, 90>>) @@ (10 :> <<85, 170, 2, 5, 10, 240, 90>>)

\* dict minutes -> frame
TIMER_PACKETS ==
    (0 :> <<85, 170, 2, 6, 0, 249, 90>>) @@ (30 :> <<85, 170, 2, 6, 30, 219, 90>>) @@
    (60 :> <<85, 170, 2, 6, 60, 187, 90>>) @@ (120 :> <<85, 170, 2, 6, 120, 123, 90>>) @@
    (180 :> <<85, 170, 2, 6, 180, 59, 90>>)

\* Python lists are 0-indexed; the model keeps them as 1-indexed sequences
\* and reads element i as s[i + 1].
MODE_OPTIONS == <<"Mode I", "Mode II", "Mode III", "Mode IV", "Mode V">>
MODE_PACKETS == <<PACKET_MODE_1, PACKET_MODE_2, PACKET_MODE_3, PACKET_MODE_4, PACKET_MODE_5>>
TIMER_OPTIONS == <<"Off", "30 minutes", "1 hour", "2 hours", "3 hours">>
TIMER_VALUES == <<0, 30, 60, 120, 180>>

\* list.index(x) raises ValueError iff x is not in the list
InList(s, x) == \E i \in 1..Len(s) : s[i] = x

\* list.index(x) for x in the list: 0-based position of the first occurrence
ListIndex(s, x) ==
    (CHOOSE i \in 1..Len(s) : s[i] = x /\ \A j \in 1..(i - 1) : s[j] # x) - 1

\* The frames the catalog offers, each with the command byte and the
\* parameter bytes it stands for.
Catalog ==
    {[frame |-> PACKET_INIT, cmd |-> CMD_INIT, param |-> <<>>],
     [frame |-> PACKET_POWER_ON, cmd |-> CMD_POWER, param |-> <<16, 1, 0>>],
     [frame |-> PACKET_POWER_OFF, cmd |-> CMD_POWER, param |-> <<16, 0, 0>>],
     [frame |-> PACKET_GET_STATUS, cmd |-> CMD_GET_STATUS, param |-> <<>>],
     [frame |-> PACKET_KEEPALIVE, cmd |-> CMD_KEEPALIVE, param |-> <<>>],
     [frame |-> PACKET_FAN_BOOST_ON, cmd |-> CMD_FAN_BOOST, param |-> <<1>>],
     [frame |-> PACKET_FAN_BOOST_OFF, cmd |-> CMD_FAN_BOOST, param |-> <<0>>],
     [frame |-> PACKET_LOCK_ON, cmd |-> CMD_LOCK, param |-> <<1>>],
     [frame |-> PACKET_LOCK_OFF, cmd |-> CMD_LOCK, param |-> <<0>>]}
    \cup {[frame |-> MODE_PACKETS[i], cmd |-> CMD_MODE, param |-> <<i>>] : i \in 1..5}
    \cup {[frame |-> INTENSITY_PACKETS[l], cmd |-> CMD_INTENSITY, param |-> <<l>>] :
            l \in DOMAIN INTENSITY_PACKETS}
    \cup {[frame |-> TIMER_PACKETS[m], cmd |-> CMD_TIMER, param |-> <<m>>] :
            m \in DOMAIN TIMER_PACKETS}

(***************************************************************************)
(* State.                                                                  *)
(***************************************************************************)
VARIABLES
    available,     \* XEITINBLEDevice._available
    power_on,      \* XEITINBLEDevice.power_on
    fan_boost,     \* XEITINBLEDevice.fan_boost
    modes_active,  \* XEITINBLEDevice.modes_active, indexed 0..4
    timer,         \* XEITINBLEDevice.timer
    intensity,     \* XEITINBLEDevice.intensity
    mode,          \* XEITINBLEDevice.mode: <<>> while the attribute does not exist, else <<idx>>
    locked,        \* XEITINBLEDevice._lock: asyncio.Lock._locked
    waiters,       \* XEITINBLEDevice._lock: asyncio.Lock._waiters, in arrival order
    task,          \* the host tasks running entity setters
    calls,         \* number of setter invocations so far
    lastCall,      \* the setter invocation that returned most recently
    overlap,       \* the transport saw an operation start while another conversation was open
    lastSend,      \* outcome of the most recently completed send_command
    c_cmd,         \* codec input: command byte
    c_data,        \* codec input: payload bytes
    c_frame,       \* result of const.build_packet(c_cmd, c_data)
    c_libframe,    \* result of xeitin_diffuser._build_packet(c_cmd, c_data)
    d_connected,   \* XEITINDiffuser._connected
    d_client,      \* XEITINDiffuser._client: "none", or the BleakClient's link "open" / "closed"
    d_call,        \* XEITINDiffuser: the operation in progress, or the one that returned last
    d_schedule,    \* the DiffuserSchedule the script hands to set_schedule
    s_flow,        \* config flow: "none", "confirm" (form shown), "created" (entry created)
    s_unique_id,   \* config flow: self.unique_id
    s_entry,       \* config entry: data[CONF_DEVICE_ADDRESS]
    s_hass,        \* hass.data[DOMAIN][entry_id]["address"]
    s_ble_device,  \* hass.data[DOMAIN][entry_id]["ble_device"]: the session's address
    s_platform     \* outcome of each platform's async_setup_entry

cacheVars == <<available, power_on, fan_boost, modes_active, timer, intensity, mode>>
sessionVars == <<available, power_on, fan_boost, modes_active, timer, intensity, mode,
                 locked, waiters, task, calls, lastCall, overlap, lastSend>>
codecVars == <<c_cmd, c_data, c_frame, c_libframe>>
clientVars == <<d_connected, d_client, d_call, d_schedule>>
setupVars == <<s_flow, s_unique_id, s_entry, s_hass, s_ble_device, s_platform>>
vars == <<available, power_on, fan_boost, modes_active, timer, intensity, mode,
          locked, waiters, task, calls, lastCall, overlap, lastSend,
          c_cmd, c_data, c_frame, c_libframe,
          d_connected, d_client, d_call, d_schedule,
          s_flow, s_unique_id, s_entry, s_hass, s_ble_device, s_platform>>

NoFrame == <<>>
ModeIndexes == 0..(Len(MODE_OPTIONS) - 1)

\* A host task that has not entered its setter yet.
IdleTask ==
    [pc |-> "idle", kind |-> "none", arg |-> <<>>, packet |-> NoFrame, val |-> 0,
     exc |-> "none", conv |-> <<>>, pre |-> <<>>]

\* A host task whose setter has returned.
DoneTask == [IdleTask EXCEPT !.pc = "done"]

\* What is kept of a setter invocation that returned: the task's number, the
\* call's arguments, send_command's result ("none" if it was not called) and
\* the setter's outcome.
Returned(t, rec, result, ret) ==
    [id |-> t, kind |-> rec.kind, arg |-> rec.arg, packet |-> rec.packet, val |-> rec.val,
     pre |-> rec.pre, result |-> result, ret |-> ret]

\* XEITINBLEDevice.__init__
DeviceInit ==
    /\ available = TRUE
    /\ power_on = FALSE
    /\ fan_boost = FALSE
    /\ modes_active = [i \in ModeIndexes |-> FALSE]
    /\ timer = 0
    /\ intensity = 5
    /\ mode = <<>>
    /\ locked = FALSE
    /\ waiters = <<>>

SessionInit ==
    /\ DeviceInit
    /\ task = [t \in Tasks |-> IdleTask]
    /\ calls = 0
    /\ lastCall = Returned(0, IdleTask, "none", "none")
    /\ overlap = FALSE
    /\ lastSend = "none"

CodecIdle ==
    /\ c_cmd = 0
    /\ c_data = <<>>
    /\ c_frame = NoFrame
    /\ c_libframe = NoFrame

\* no operation of the standalone client yet
NoCall ==
    [pc |-> "idle", op |-> "none", arg |-> <<>>, frame |-> NoFrame, writes |-> <<>>,
     ret |-> "none"]

\* XEITINDiffuser.__init__
ClientIdle ==
    /\ d_connected = FALSE
    /\ d_client = "none"
    /\ d_call = NoCall

\* the script has built no schedule
NoSchedule == <<>>

\* a string that is not there: a missing dict key, an unset attribute
NoString == <<>>

Platforms == {"switch", "number", "select"}

\* no config flow has run and the integration is not set up
SetupIdle ==
    /\ s_flow = "none"
    /\ s_unique_id = NoString
    /\ s_entry = NoString
    /\ s_hass = NoString
    /\ s_ble_device = NoString
    /\ s_platform = [p \in Platforms |-> "pending"]

Init == SessionInit /\ CodecIdle /\ ClientIdle /\ d_schedule = NoSchedule /\ SetupIdle

(***************************************************************************)
(* Inputs of the session model.                                            *)
(***************************************************************************)
\* outcomes of one transport call: it returns, raises BleakError, or raises
\* an exception of another class (a connect timeout raises TimeoutError)
TransportOutcomes == {"ok", BleakError, TimeoutError}
\* mode switches the host toggles (first and last of the five)
ModeSwitchInputs == {0, 4}
\* slider values handed to the intensity number, in tenths (float value * 10)
IntensityInputs == {0, 74, 110}
\* options handed to the mode select; "Mode VI" is not an option
ModeOptionInputs == {"Mode I", "Mode V", "Mode VI"}
\* options handed to the timer select; "45 minutes" is not an option
TimerOptionInputs == {"Off", "1 hour", "45 minutes"}

\* int(value) of a float given in tenths: truncation toward zero
IntOfTenths(v) == IF v >= 0 THEN v \div 10 ELSE -((-v) \div 10)

(***************************************************************************)
(* XEITINBLEDevice.send_command.                                           *)
(***************************************************************************)
ConversationPcs == {"connecting", "write_init", "sleep1", "write_cmd", "sleep2", "disconnecting"}
InConversation(t) == task[t].pc \in ConversationPcs
OthersInConversation(t) == \E u \in DOMAIN task \ {t} : InConversation(u)

Event(op, frame, ok) == [op |-> op, frame |-> frame, ok |-> ok]

\* a send_command that takes the lock although it is held (no mutual exclusion)
LockFree_nolock(l, w) == TRUE

\* asyncio.Lock.acquire takes the lock at once iff it is not locked and nobody waits
LockFree(l, w) == ~l /\ w = <<>>

\* the frame written first on a new connection, were the handshake skipped
FirstFrame_skipinit(packet) == packet

\* the frame written first on a new connection
FirstFrame(packet) == PACKET_INIT

\* a send_command that writes INIT again when the INIT write raised
AfterInitWrite_retry(o) == IF o = "ok" THEN "sleep1" ELSE "write_init"

\* where send_command continues after the INIT write returned or raised
AfterInitWrite(o) == IF o = "ok" THEN "sleep1" ELSE "disconnecting"

\* `async with self._lock` entered from a setter: rec is the task's record
\* with the call's arguments.  A free lock is taken without suspending and
\* BleakClient.__aenter__ starts connecting; otherwise the task queues.
SendCommandEnter(t, rec) ==
    IF LockFree(locked, waiters)
    THEN /\ locked' = TRUE
         /\ waiters' = waiters
         /\ task' = [task EXCEPT ![t] = [rec EXCEPT !.pc = "connecting"]]
         /\ overlap' = (overlap \/ OthersInConversation(t))
    ELSE /\ waiters' = Append(waiters, t)
         /\ task' = [task EXCEPT ![t] = [rec EXCEPT !.pc = "waiting"]]
         /\ UNCHANGED <<locked, overlap>>

\* a lock that wakes the waiter that arrived last
LockGranted_lifo(t) ==
    /\ task[t].pc = "waiting"
    /\ ~locked
    /\ waiters # <<>>
    /\ waiters[Len(waiters)] = t
    /\ locked' = TRUE
    /\ waiters' = SubSeq(waiters, 1, Len(waiters) - 1)
    /\ task' = [task EXCEPT ![t].pc = "connecting"]
    /\ overlap' = (overlap \/ OthersInConversation(t))
    /\ UNCHANGED <<cacheVars, calls, lastCall, lastSend, codecVars, clientVars, setupVars>>

\* the released lock wakes the first waiter, which takes it and starts connecting
LockGranted(t) ==
    /\ task[t].pc = "waiting"
    /\ ~locked
    /\ waiters # <<>>
    /\ Head(waiters) = t
    /\ locked' = TRUE
    /\ waiters' = Tail(waiters)
    /\ task' = [task EXCEPT ![t].pc = "connecting"]
    /\ overlap' = (overlap \/ OthersInConversation(t))
    /\ UNCHANGED <<cacheVars, calls, lastCall, lastSend, codecVars, clientVars, setupVars>>

\* what send_command does with the exception e that left the BleakClient
\* block ("none": the block completed): "True", "False", or e raised on
SendResult(e) ==
    IF e = "none" THEN "True" ELSE IF e = BleakError THEN "False" ELSE e

\* self._available after send_command
AvailableAfter(e, av) ==
    IF e = "none" THEN TRUE ELSE IF e = BleakError THEN FALSE ELSE av

(***************************************************************************)
(* Entity setters: the part that runs once send_command has finished.      *)
(***************************************************************************)
SwitchKinds == {"power_on", "power_off", "fan_on", "fan_off", "mode_on"}
ValueKinds == {"set_intensity", "select_mode", "select_timer"}

\* whether the setter writes its cache field, given send_command's result r:
\* the switches test the returned boolean, number and selects do not
SetterCommits(kind, r) ==
    IF kind \in SwitchKinds THEN r = "True" ELSE r \in {"True", "False"}

\* exception classes the setter's own except clause catches
SetterCatches(kind) ==
    IF kind = "select_mode" THEN {ValueError}
    ELSE IF kind = "select_timer" THEN {ValueError, KeyError}
    ELSE {}

\* how the setter ends: "normal" or the exception that escapes to the host
SetterOutcome(kind, r) ==
    IF r \in {"True", "False"} \/ r \in SetterCatches(kind) THEN "normal" ELSE r

\* the end of send_command and of its setter with power switches that flip
\* the cached state instead of setting it
SendCommandExit_toggle(t, rec, e) ==
    LET r == SendResult(e)
        commit == SetterCommits(rec.kind, r)
    IN  /\ available' = AvailableAfter(e, available)
        /\ locked' = FALSE
        /\ power_on' = IF commit /\ rec.kind \in {"power_on", "power_off"} THEN ~power_on
                       ELSE power_on
        /\ fan_boost' = IF commit /\ rec.kind = "fan_on" THEN TRUE
                        ELSE IF commit /\ rec.kind = "fan_off" THEN FALSE
                        ELSE fan_boost
        /\ modes_active' = IF commit /\ rec.kind = "mode_on"
                           THEN [modes_active EXCEPT ![rec.val] = TRUE]
                           ELSE modes_active
        /\ intensity' = IF commit /\ rec.kind = "set_intensity" THEN rec.val ELSE intensity
        /\ mode' = IF commit /\ rec.kind = "select_mode" THEN <<rec.val>> ELSE mode
        /\ timer' = IF commit /\ rec.kind = "select_timer" THEN rec.val ELSE timer
        /\ task' = [task EXCEPT ![t] = DoneTask]
        /\ lastCall' = Returned(t, rec, r, SetterOutcome(rec.kind, r))
        /\ lastSend' = IF e = "none" THEN "success" ELSE "failure"
        /\ UNCHANGED <<waiters, calls, overlap, codecVars, clientVars, setupVars>>

\* the end of send_command and of its setter with an intensity setter that
\* stores int(value) as it came, before the clamp
SendCommandExit_unclamped(t, rec, e) ==
    LET r == SendResult(e)
        commit == SetterCommits(rec.kind, r)
    IN  /\ available' = AvailableAfter(e, available)
        /\ locked' = FALSE
        /\ power_on' = IF commit /\ rec.kind = "power_on" THEN TRUE
                       ELSE IF commit /\ rec.kind = "power_off" THEN FALSE
                       ELSE power_on
        /\ fan_boost' = IF commit /\ rec.kind = "fan_on" THEN TRUE
                        ELSE IF commit /\ rec.kind = "fan_off" THEN FALSE
                        ELSE fan_boost
        /\ modes_active' = IF commit /\ rec.kind = "mode_on"
                           THEN [modes_active EXCEPT ![rec.val] = TRUE]
                           ELSE modes_active
        /\ intensity' = IF commit /\ rec.kind = "set_intensity" THEN IntOfTenths(rec.arg[1])
                        ELSE intensity
        /\ mode' = IF commit /\ rec.kind = "select_mode" THEN <<rec.val>> ELSE mode
        /\ timer' = IF commit /\ rec.kind = "select_timer" THEN rec.val ELSE timer
        /\ task' = [task EXCEPT ![t] = DoneTask]
        /\ lastCall' = Returned(t, rec, r, SetterOutcome(rec.kind, r))
        /\ lastSend' = IF e = "none" THEN "success" ELSE "failure"
        /\ UNCHANGED <<waiters, calls, overlap, codecVars, clientVars, setupVars>>

\* the end of a send_command whose lock stays held when an exception other
\* than BleakError leaves the call
SendCommandExit_keeplock(t, rec, e) ==
    LET r == SendResult(e)
        commit == SetterCommits(rec.kind, r)
    IN  /\ available' = AvailableAfter(e, available)
        /\ locked' = (r \notin {"True", "False"})
        /\ power_on' = IF commit /\ rec.kind = "power_on" THEN TRUE
                       ELSE IF commit /\ rec.kind = "power_off" THEN FALSE
                       ELSE power_on
        /\ fan_boost' = IF commit /\ rec.kind = "fan_on" THEN TRUE
                        ELSE IF commit /\ rec.kind = "fan_off" THEN FALSE
                        ELSE fan_boost
        /\ modes_active' = IF commit /\ rec.kind = "mode_on"
                           THEN [modes_active EXCEPT ![rec.val] = TRUE]
                           ELSE modes_active
        /\ intensity' = IF commit /\ rec.kind = "set_intensity" THEN rec.val ELSE intensity
        /\ mode' = IF commit /\ rec.kind = "select_mode" THEN <<rec.val>> ELSE mode
        /\ timer' = IF commit /\ rec.kind = "select_timer" THEN rec.val ELSE timer
        /\ task' = [task EXCEPT ![t] = DoneTask]
        /\ lastCall' = Returned(t, rec, r, SetterOutcome(rec.kind, r))
        /\ lastSend' = IF e = "none" THEN "success" ELSE "failure"
        /\ UNCHANGED <<waiters, calls, overlap, codecVars, clientVars, setupVars>>

\* End of send_command and of the setter that awaited it, in one step: no
\* await lies between the end of the BleakClient block and the setter's
\* return.  rec is the task's record, e the exception leaving the block.
SendCommandExit(t, rec, e) ==
    LET r == SendResult(e)
        commit == SetterCommits(rec.kind, r)
    IN  /\ available' = AvailableAfter(e, available)
        /\ locked' = FALSE
        /\ power_on' = IF commit /\ rec.kind = "power_on" THEN TRUE
                       ELSE IF commit /\ rec.kind = "power_off" THEN FALSE
                       ELSE power_on
        /\ fan_boost' = IF commit /\ rec.kind = "fan_on" THEN TRUE
                        ELSE IF commit /\ rec.kind = "fan_off" THEN FALSE
                        ELSE fan_boost
        /\ modes_active' = IF commit /\ rec.kind = "mode_on"
                           THEN [modes_active EXCEPT ![rec.val] = TRUE]
                           ELSE modes_active
        /\ intensity' = IF commit /\ rec.kind = "set_intensity" THEN rec.val ELSE intensity
        /\ mode' = IF commit /\ rec.kind = "select_mode" THEN <<rec.val>> ELSE mode
        /\ timer' = IF commit /\ rec.kind = "select_timer" THEN rec.val ELSE timer
        /\ task' = [task EXCEPT ![t] = DoneTask]
        /\ lastCall' = Returned(t, rec, r, SetterOutcome(rec.kind, r))
        /\ lastSend' = IF e = "none" THEN "success" ELSE "failure"
        /\ UNCHANGED <<waiters, calls, overlap, codecVars, clientVars, setupVars>>

(***************************************************************************)
(* XEITINBLEDevice.send_command: the transport conversation.               *)
(***************************************************************************)
\* BleakClient.__aenter__ (connect) returned or raised
ConnectDone(t, o) ==
    /\ task[t].pc = "connecting"
    /\ LET rec == [task[t] EXCEPT !.conv = Append(@, Event("connect", NoFrame, o = "ok"))]
       IN  IF o = "ok"
           THEN /\ task' = [task EXCEPT ![t] = [rec EXCEPT !.pc = "write_init"]]
                /\ overlap' = (overlap \/ OthersInConversation(t))
                /\ UNCHANGED <<cacheVars, locked, waiters, calls, lastCall, lastSend, codecVars, clientVars, setupVars>>
           ELSE SendCommandExit(t, rec, o)

\* write_gatt_char(PACKET_INIT) returned or raised
WriteInitDone(t, o) ==
    /\ task[t].pc = "write_init"
    /\ task' = [task EXCEPT ![t] =
                  [@ EXCEPT !.conv = Append(@, Event("write", FirstFrame(task[t].packet), o = "ok")),
                            !.pc = AfterInitWrite(o),
                            !.exc = IF o = "ok" THEN "none" ELSE o]]
    /\ UNCHANGED <<cacheVars, locked, waiters, calls, lastCall, overlap, lastSend, codecVars, clientVars, setupVars>>

\* asyncio.sleep(0.3) is over; the write of the requested frame starts
Sleep1Done(t) ==
    /\ task[t].pc = "sleep1"
    /\ task' = [task EXCEPT ![t].pc = "write_cmd"]
    /\ overlap' = (overlap \/ OthersInConversation(t))
    /\ UNCHANGED <<cacheVars, locked, waiters, calls, lastCall, lastSend, codecVars, clientVars, setupVars>>

\* write_gatt_char(packet) returned or raised
WriteCmdDone(t, o) ==
    /\ task[t].pc = "write_cmd"
    /\ task' = [task EXCEPT ![t] =
                  [@ EXCEPT !.conv = Append(@, Event("write", task[t].packet, o = "ok")),
                            !.pc = IF o = "ok" THEN "sleep2" ELSE "disconnecting",
                            !.exc = IF o = "ok" THEN "none" ELSE o]]
    /\ UNCHANGED <<cacheVars, locked, waiters, calls, lastCall, overlap, lastSend, codecVars, clientVars, setupVars>>

\* asyncio.sleep(0.2) is over; BleakClient.__aexit__ starts disconnecting
Sleep2Done(t) ==
    /\ task[t].pc = "sleep2"
    /\ task' = [task EXCEPT ![t].pc = "disconnecting"]
    /\ UNCHANGED <<cacheVars, locked, waiters, calls, lastCall, overlap, lastSend, codecVars, clientVars, setupVars>>

\* BleakClient.__aexit__ (disconnect) returned or raised: an exception of the
\* disconnect replaces the one that left the block body
DisconnectDone(t, o) ==
    /\ task[t].pc = "disconnecting"
    /\ LET rec == [task[t] EXCEPT !.conv = Append(@, Event("disconnect", NoFrame, o = "ok"))]
           e == IF o = "ok" THEN task[t].exc ELSE o
       IN  SendCommandExit(t, rec, e)

(***************************************************************************)
(* Entity setters: invocation by the host.                                 *)
(***************************************************************************)
CanInvoke(t) == task[t].pc = "idle" /\ calls = t - 1

\* the record of a task that enters a setter
Call(kind, arg, packet, val, pre) ==
    [IdleTask EXCEPT !.kind = kind, !.arg = arg, !.packet = packet, !.val = val, !.pre = <<pre>>]

\* a setter that calls send_command(packet)
InvokeSend(t, rec) ==
    /\ CanInvoke(t)
    /\ calls' = calls + 1
    /\ SendCommandEnter(t, rec)
    /\ UNCHANGED <<cacheVars, lastCall, lastSend, codecVars, clientVars, setupVars>>

\* a setter that returns without calling send_command and without touching the cache
InvokeNoSend(t, rec) ==
    /\ CanInvoke(t)
    /\ calls' = calls + 1
    /\ task' = [task EXCEPT ![t] = DoneTask]
    /\ lastCall' = Returned(t, rec, "none", "normal")
    /\ UNCHANGED <<cacheVars, locked, waiters, overlap, lastSend, codecVars, clientVars, setupVars>>

\* XEITINPowerSwitch.async_turn_on
PowerTurnOn(t) == InvokeSend(t, Call("power_on", <<>>, PACKET_POWER_ON, 0, power_on))

\* a power turn-off that sends the power-on frame
PowerTurnOff_onframe(t) == InvokeSend(t, Call("power_off", <<>>, PACKET_POWER_ON, 0, power_on))

\* XEITINPowerSwitch.async_turn_off
PowerTurnOff(t) == InvokeSend(t, Call("power_off", <<>>, PACKET_POWER_OFF, 0, power_on))

\* a fan-boost turn-on that sets the cached state before it sends
FanBoostTurnOn_optimistic(t) ==
    /\ CanInvoke(t)
    /\ calls' = calls + 1
    /\ fan_boost' = TRUE
    /\ SendCommandEnter(t, Call("fan_on", <<>>, PACKET_FAN_BOOST_ON, 0, fan_boost))
    /\ UNCHANGED <<available, power_on, modes_active, timer, intensity, mode,
                   lastCall, lastSend, codecVars, clientVars, setupVars>>

\* XEITINFanBoostSwitch.async_turn_on
FanBoostTurnOn(t) == InvokeSend(t, Call("fan_on", <<>>, PACKET_FAN_BOOST_ON, 0, fan_boost))

\* XEITINFanBoostSwitch.async_turn_off
FanBoostTurnOff(t) == InvokeSend(t, Call("fan_off", <<>>, PACKET_FAN_BOOST_OFF, 0, fan_boost))

\* XEITINModeSwitch.async_turn_on of the switch built for index i
ModeTurnOn(t, i) ==
    InvokeSend(t, Call("mode_on", <<i>>, MODE_PACKETS[i + 1], i, modes_active[i]))

\* a mode-off that forgets every schedule instead of its own
ModeOffUpdate_clearall(m, i) == [j \in DOMAIN m |-> FALSE]

\* self._ble_device.modes_active[self._mode_idx] = False
ModeOffUpdate(m, i) == [m EXCEPT ![i] = FALSE]

\* XEITINModeSwitch.async_turn_off of the switch built for index i:
\* local state only, no send_command
ModeTurnOff(t, i) ==
    /\ CanInvoke(t)
    /\ calls' = calls + 1
    /\ modes_active' = ModeOffUpdate(modes_active, i)
    /\ task' = [task EXCEPT ![t] = DoneTask]
    /\ lastCall' = Returned(t, Call("mode_off", <<i>>, NoFrame, i, modes_active[i]),
                            "none", "normal")
    /\ UNCHANGED <<available, power_on, fan_boost, timer, intensity, mode,
                   locked, waiters, overlap, lastSend, codecVars, clientVars, setupVars>>

\* the clamp of async_set_native_value
ClampLevel(level) == IF level < 1 THEN 1 ELSE IF level > 10 THEN 10 ELSE level

\* XEITINIntensityNumber.async_set_native_value(value), value given in tenths
SetNativeValue(t, v) ==
    LET level == ClampLevel(IntOfTenths(v))
    IN  IF level \in DOMAIN INTENSITY_PACKETS
        THEN InvokeSend(t, Call("set_intensity", <<v>>, INTENSITY_PACKETS[level], level, intensity))
        ELSE InvokeNoSend(t, Call("set_intensity", <<v>>, NoFrame, level, intensity))

\* XEITINModeSelect.async_select_option(option)
ModeSelectOption(t, option) ==
    IF InList(MODE_OPTIONS, option)
    THEN LET idx == ListIndex(MODE_OPTIONS, option)
         IN  InvokeSend(t, Call("select_mode", <<option>>, MODE_PACKETS[idx + 1], idx, mode))
    ELSE InvokeNoSend(t, Call("select_mode", <<option>>, NoFrame, 0, mode))

\* XEITINTimerSelect.async_select_option(option)
TimerSelectOption(t, option) ==
    IF InList(TIMER_OPTIONS, option)
    THEN LET idx == ListIndex(TIMER_OPTIONS, option)
             timer_val == TIMER_VALUES[idx + 1]
         IN  IF timer_val \in DOMAIN TIMER_PACKETS
             THEN InvokeSend(t, Call("select_timer", <<option>>, TIMER_PACKETS[timer_val],
                                     timer_val, timer))
             ELSE InvokeNoSend(t, Call("select_timer", <<option>>, NoFrame, timer_val, timer))
    ELSE InvokeNoSend(t, Call("select_timer", <<option>>, NoFrame, 0, timer))

\* a timer poll of the intensity number that refreshes from the device: it
\* sends the status request through send_command
PollNumber_refresh(t) ==
    InvokeSend(t, Call("poll", <<>>, PACKET_GET_STATUS, intensity, intensity))

\* The host's timer polls XEITINIntensityNumber every SCAN_INTERVAL (the
\* entity does not set should_poll to False): the entity has no update
\* method, so the poll only reads native_value from the cache.
PollNumber(t) ==
    InvokeNoSend(t, Call("poll", <<>>, NoFrame, intensity, intensity))

(***************************************************************************)
(* Entity state reads: the properties the host reads to publish a state.   *)
(***************************************************************************)
AttributeError == "AttributeError"

\* a property read returns v, or raises e
ReadValue(v) == [raised |-> "none", value |-> <<v>>]
ReadRaised(e) == [raised |-> e, value |-> <<>>]

\* XEITINPowerSwitch.is_on
PowerSwitch_is_on == ReadValue(power_on)

\* XEITINFanBoostSwitch.is_on
FanBoostSwitch_is_on == ReadValue(fan_boost)

\* XEITINModeSwitch.is_on of the switch built for index i
ModeSwitch_is_on(i) == ReadValue(modes_active[i])

\* XEITINIntensityNumber.native_value: float(intensity)
native_value == ReadValue(intensity)

\* XEITINModeSelect.current_option: reads the attribute `mode` of the
\* session, which __init__ does not create
ModeSelect_current_option ==
    IF mode = <<>> THEN ReadRaised(AttributeError)
    ELSE IF 0 <= mode[1] /\ mode[1] < Len(MODE_OPTIONS) THEN ReadValue(MODE_OPTIONS[mode[1] + 1])
    ELSE ReadValue(MODE_OPTIONS[1])

\* XEITINTimerSelect.current_option
TimerSelect_current_option ==
    IF InList(TIMER_VALUES, timer) THEN ReadValue(TIMER_OPTIONS[ListIndex(TIMER_VALUES, timer) + 1])
    ELSE ReadValue(TIMER_OPTIONS[1])

(***************************************************************************)
(* The session specification.                                              *)
(***************************************************************************)
Next ==
    \E t \in Tasks :
        \/ PowerTurnOn(t)
        \/ PowerTurnOff(t)
        \/ FanBoostTurnOn(t)
        \/ FanBoostTurnOff(t)
        \/ \E i \in ModeSwitchInputs : ModeTurnOn(t, i)
        \/ \E i \in ModeSwitchInputs : ModeTurnOff(t, i)
        \/ \E v \in IntensityInputs : SetNativeValue(t, v)
        \/ \E option \in ModeOptionInputs : ModeSelectOption(t, option)
        \/ \E option \in TimerOptionInputs : TimerSelectOption(t, option)
        \/ PollNumber(t)
        \/ LockGranted(t)
        \/ \E o \in TransportOutcomes : ConnectDone(t, o)
        \/ \E o \in TransportOutcomes : WriteInitDone(t, o)
        \/ Sleep1Done(t)
        \/ \E o \in TransportOutcomes : WriteCmdDone(t, o)
        \/ Sleep2Done(t)
        \/ \E o \in TransportOutcomes : DisconnectDone(t, o)

Spec == Init /\ [][Next]_vars

(***************************************************************************)
(* The queueing specification: the power and the fan-boost switch are      *)
(* turned on and off by MaxQueueCalls concurrent host tasks, so that        *)
(* several callers wait for the lock behind the one that holds it.         *)
(***************************************************************************)
QueueInit ==
    /\ DeviceInit
    /\ task = [t \in QueueTasks |-> IdleTask]
    /\ calls = 0
    /\ lastCall = Returned(0, IdleTask, "none", "none")
    /\ overlap = FALSE
    /\ lastSend = "none"
    /\ CodecIdle
    /\ ClientIdle
    /\ d_schedule = NoSchedule
    /\ SetupIdle

\* the steps of task t's send_command that the event loop and the transport
\* take: the grant of the lock, the end of a transport operation or of a sleep
SendProgress(t) ==
    \/ LockGranted(t)
    \/ \E o \in TransportOutcomes : ConnectDone(t, o)
    \/ \E o \in TransportOutcomes : WriteInitDone(t, o)
    \/ Sleep1Done(t)
    \/ \E o \in TransportOutcomes : WriteCmdDone(t, o)
    \/ Sleep2Done(t)
    \/ \E o \in TransportOutcomes : DisconnectDone(t, o)

QueueNext ==
    \E t \in QueueTasks :
        \/ PowerTurnOn(t)
        \/ PowerTurnOff(t)
        \/ FanBoostTurnOn(t)
        \/ FanBoostTurnOff(t)
        \/ SendProgress(t)

QueueSpec == QueueInit /\ [][QueueNext]_vars

\* Every transport operation and every sleep eventually ends, and the event
\* loop runs the waiter the released lock has woken.
FairQueueSpec == QueueSpec /\ \A t \in QueueTasks : WF_vars(SendProgress(t))

(***************************************************************************)
(* The codec specification: both build functions applied to one input.     *)
(***************************************************************************)
\* byte values the short payloads are made of
ByteSamples == {0, 1, 16, 127, 128, 255}
\* every payload over ByteSamples up to MaxShortLen bytes
ShortPayloads == UNION {[1..n -> ByteSamples] : n \in 0..MaxShortLen}
\* lengths of the long payloads: the top of the documented range and the
\* lengths around the overflow of the length byte
LongLens == {250, 253, 254, 255, 256}
\* long payloads: a repeated byte, and the bytes 1, 2, 3, ... wrapping at 256
LongPayloads ==
    {[i \in 1..n |-> b] : n \in LongLens, b \in {0, 255}}
    \cup {[i \in 1..n |-> i % 256] : n \in LongLens}
\* the parameters the catalog and the standalone client encode
CatalogPayloads == {e.param : e \in Catalog}

CmdInputs == {e.cmd : e \in Catalog} \cup {CMD_GET_INFO, 0, 255}
DataInputs == ShortPayloads \cup LongPayloads \cup CatalogPayloads

CodecInit ==
    /\ SessionInit
    /\ c_cmd \in CmdInputs
    /\ c_data \in DataInputs
    /\ c_frame = NoFrame
    /\ c_libframe = NoFrame
    /\ ClientIdle
    /\ d_schedule = NoSchedule
    /\ SetupIdle

\* a call of const.build_packet(c_cmd, c_data)
BuildPacket ==
    /\ c_frame = NoFrame
    /\ c_frame' = build_packet(c_cmd, c_data)
    /\ UNCHANGED <<sessionVars, c_cmd, c_data, c_libframe, clientVars, setupVars>>

\* a call of xeitin_diffuser._build_packet(c_cmd, c_data)
LibBuildPacket ==
    /\ c_libframe = NoFrame
    /\ c_libframe' = lib_build_packet(c_cmd, c_data)
    /\ UNCHANGED <<sessionVars, c_cmd, c_data, c_frame, clientVars, setupVars>>

CodecNext == BuildPacket \/ LibBuildPacket

CodecSpec == CodecInit /\ [][CodecNext]_vars

(***************************************************************************)
(* The standalone client XEITINDiffuser (xeitin_diffuser.py), driven by    *)
(* one script that awaits each operation before it starts the next.        *)
(***************************************************************************)
ConnectionError == "ConnectionError"

\* Command.SCHEDULE
CMD_SCHEDULE == 20

\* x >> 8 on a Python int
Shr8(x) == x \div 256

\* x | 0x80 on a non-negative Python int
Or0x80(x) == IF (x \div 128) % 2 = 1 THEN x ELSE x + 128

\* bytes([...]): ValueError unless every element is in range(0, 256)
BytesOf(s) == IF \A i \in 1..Len(s) : IsByte(s[i]) THEN s ELSE Raised(ValueError)

\* DiffuserSchedule.start_minutes_from_midnight
start_minutes_from_midnight(sch) == sch.start_hour * 60 + sch.start_minute

\* DiffuserSchedule.end_minutes_from_midnight
end_minutes_from_midnight(sch) == sch.end_hour * 60 + sch.end_minute

\* the schedule data with the enabled flag left out of the days byte
EncodeSchedule_noflag(sch) ==
    LET start_mins == start_minutes_from_midnight(sch)
        end_mins == end_minutes_from_midnight(sch)
    IN  BytesOf(<<sch.mode_index,
                  IF sch.enabled THEN 3 ELSE 2,
                  sch.days,
                  0,
                  And0xFF(start_mins), And0xFF(Shr8(start_mins)),
                  And0xFF(end_mins), And0xFF(Shr8(end_mins)),
                  And0xFF(sch.run_time_sec), And0xFF(Shr8(sch.run_time_sec)),
                  And0xFF(sch.stop_time_sec), And0xFF(Shr8(sch.stop_time_sec)),
                  0, 0, 0, 0>>)

\* the data bytes set_schedule builds
EncodeSchedule(sch) ==
    LET start_mins == start_minutes_from_midnight(sch)
        end_mins == end_minutes_from_midnight(sch)
    IN  BytesOf(<<sch.mode_index,
                  IF sch.enabled THEN 3 ELSE 2,
                  IF sch.enabled THEN Or0x80(sch.days) ELSE sch.days,
                  0,
                  And0xFF(start_mins), And0xFF(Shr8(start_mins)),
                  And0xFF(end_mins), And0xFF(Shr8(end_mins)),
                  And0xFF(sch.run_time_sec), And0xFF(Shr8(sch.run_time_sec)),
                  And0xFF(sch.stop_time_sec), And0xFF(Shr8(sch.stop_time_sec)),
                  0, 0, 0, 0>>)

\* schedules handed to set_schedule: the ends of the documented ranges, a
\* start time whose low byte is 0, and a mode index and a days mask outside
\* their ranges
ScheduleInputs ==
    [mode_index : {0, 4, 256}, enabled : BOOLEAN,
     start_hour : {0, 4, 23}, start_minute : {0, 16, 59},
     end_hour : {0, 23}, end_minute : {59},
     run_time_sec : {0, 256, 65535}, stop_time_sec : {255, 65535},
     days : {0, 85, 127, 255}]

\* XEITINDiffuser.is_connected
is_connected == d_connected /\ d_client = "open"

ClientIdleNow == d_call.pc = "idle"

\* an operation returns (or raises) ret
ClientReturn(call, ret) == [call EXCEPT !.pc = "idle", !.ret = ret]

\* the BLE link of the connected BleakClient drops
LinkLost ==
    /\ d_client = "open"
    /\ d_client' = "closed"
    /\ UNCHANGED <<sessionVars, codecVars, setupVars, d_schedule, d_connected, d_call>>

\* connect(): a new BleakClient is created and its connect() awaited
Connect ==
    /\ ClientIdleNow
    /\ d_client' = "closed"
    /\ d_call' = [NoCall EXCEPT !.pc = "connecting", !.op = "connect"]
    /\ UNCHANGED <<sessionVars, codecVars, setupVars, d_schedule, d_connected>>

\* connect(): BleakClient.connect returned or raised
ClientConnected(o) ==
    /\ d_call.pc = "connecting"
    /\ IF o = "ok"
       THEN /\ d_client' = "open"
            /\ d_call' = [d_call EXCEPT !.pc = "subscribing"]
            /\ UNCHANGED d_connected
       ELSE /\ d_connected' = FALSE
            /\ d_call' = ClientReturn(d_call, "False")
            /\ UNCHANGED d_client
    /\ UNCHANGED <<sessionVars, codecVars, setupVars, d_schedule>>

\* connect(): start_notify returned or raised; after it _connected is set
\* and _send_command(Command.INIT) checks is_connected and starts its write
Subscribed(o) ==
    /\ d_call.pc = "subscribing"
    /\ IF o = "ok" /\ d_client = "open"
       THEN /\ d_connected' = TRUE
            /\ d_call' = [d_call EXCEPT !.pc = "init_write",
                                        !.frame = lib_build_packet(CMD_INIT, <<>>)]
       ELSE /\ d_connected' = FALSE
            /\ d_call' = ClientReturn(d_call, "False")
    /\ UNCHANGED <<sessionVars, codecVars, setupVars, d_schedule, d_client>>

\* connect(): the INIT write returned or raised; _send_command turns an
\* exception into False, which connect() does not look at
InitWritten(o) ==
    /\ d_call.pc = "init_write"
    /\ d_call' = [d_call EXCEPT !.pc = "init_sleep",
                                !.writes = Append(@, Event("write", d_call.frame, o = "ok"))]
    /\ UNCHANGED <<sessionVars, codecVars, setupVars, d_schedule, d_connected, d_client>>

\* connect(): asyncio.sleep(0.1) is over, connect returns True
InitSleepDone ==
    /\ d_call.pc = "init_sleep"
    /\ d_call' = ClientReturn(d_call, "True")
    /\ UNCHANGED <<sessionVars, codecVars, setupVars, d_schedule, d_connected, d_client>>

\* disconnect(): nothing to do without a client, else BleakClient.disconnect
\* is awaited
Disconnect ==
    /\ ClientIdleNow
    /\ d_call' = IF d_client = "none"
                 THEN [NoCall EXCEPT !.op = "disconnect", !.ret = "None"]
                 ELSE [NoCall EXCEPT !.pc = "disconnecting", !.op = "disconnect"]
    /\ UNCHANGED <<sessionVars, codecVars, setupVars, d_schedule, d_connected, d_client>>

\* disconnect(): BleakClient.disconnect returned or raised (logged); finally
\* _connected = False and _client = None
Disconnected(o) ==
    /\ d_call.pc = "disconnecting"
    /\ d_connected' = FALSE
    /\ d_client' = "none"
    /\ d_call' = ClientReturn(d_call, "None")
    /\ UNCHANGED <<sessionVars, codecVars, setupVars, d_schedule>>

\* set_schedule(d_schedule): the data bytes are built, then _send_command
\* checks is_connected, builds the frame and starts the write
SetSchedule ==
    /\ ClientIdleNow
    /\ LET sch == d_schedule
           data == EncodeSchedule(sch)
           call == [NoCall EXCEPT !.op = "set_schedule", !.arg = <<sch>>]
       IN  d_call' = IF data = Raised(ValueError) THEN ClientReturn(call, ValueError)
                     ELSE IF ~is_connected THEN ClientReturn(call, ConnectionError)
                     ELSE [call EXCEPT !.pc = "writing",
                                       !.frame = lib_build_packet(CMD_SCHEDULE, data)]
    /\ UNCHANGED <<sessionVars, codecVars, setupVars, d_schedule, d_connected, d_client>>

\* Command.TIME_SYNC
CMD_TIME_SYNC == 6

\* PowerMode.MODE_10, PowerMode.MODE_12
PowerModes == {16, 18}

\* x >> n on a non-negative Python int
Shr(x, n) == x \div (2 ^ n)

\* timestamps handed to sync_time (or read from the clock): the epoch, a
\* time of the year 2026, and the largest 31-bit value
TimestampInputs == {0, 1762077600, 2147483647}

\* the operations that only build data bytes and call _send_command, each
\* with its arguments
CommandCalls ==
    {<<"keepalive", <<>>>>, <<"get_status", <<>>>>}
    \cup {<<"power_on", <<m>>>> : m \in PowerModes}
    \cup {<<"power_off", <<m>>>> : m \in PowerModes}
    \cup {<<"set_fan", <<IF enabled THEN 1 ELSE 0>>>> : enabled \in BOOLEAN}
    \cup {<<"sync_time", <<ts>>>> : ts \in TimestampInputs}

\* the command byte keepalive, get_status, power_on, power_off, set_fan and
\* sync_time hand to _send_command
CommandByte(op) ==
    IF op = "keepalive" THEN CMD_KEEPALIVE
    ELSE IF op = "get_status" THEN CMD_GET_STATUS
    ELSE IF op = "sync_time" THEN CMD_TIME_SYNC
    ELSE CMD_POWER

\* the data bytes they build; set_fan's argument is the bool as the int it
\* is (True = 1)
CommandData(op, arg) ==
    IF op \in {"keepalive", "get_status"} THEN <<>>
    ELSE IF op = "power_on" THEN BytesOf(<<arg[1], 1, 0>>)
    ELSE IF op = "power_off" THEN BytesOf(<<arg[1], 0, 0>>)
    ELSE IF op = "set_fan" THEN BytesOf(<<18, IF arg[1] = 1 THEN 1 ELSE 0, 0>>)
    ELSE BytesOf(<<And0xFF(arg[1]), And0xFF(Shr(arg[1], 8)),
                   And0xFF(Shr(arg[1], 16)), And0xFF(Shr(arg[1], 24))>>)

\* a command operation whose _send_command skips the is_connected test
ClientCommand_nocheck(op, arg) ==
    /\ ClientIdleNow
    /\ LET data == CommandData(op, arg)
           call == [NoCall EXCEPT !.op = op, !.arg = arg]
       IN  d_call' = IF data = Raised(ValueError) THEN ClientReturn(call, ValueError)
                     ELSE [call EXCEPT !.pc = "writing",
                                       !.frame = lib_build_packet(CommandByte(op), data)]
    /\ UNCHANGED <<sessionVars, codecVars, setupVars, d_schedule, d_connected, d_client>>

\* keepalive(), get_status(), power_on(mode), power_off(mode),
\* set_fan(enabled), sync_time(timestamp): the data bytes are built, then
\* _send_command checks is_connected, builds the frame and starts the write
ClientCommand(op, arg) ==
    /\ ClientIdleNow
    /\ LET data == CommandData(op, arg)
           call == [NoCall EXCEPT !.op = op, !.arg = arg]
       IN  d_call' = IF data = Raised(ValueError) THEN ClientReturn(call, ValueError)
                     ELSE IF ~is_connected THEN ClientReturn(call, ConnectionError)
                     ELSE [call EXCEPT !.pc = "writing",
                                       !.frame = lib_build_packet(CommandByte(op), data)]
    /\ UNCHANGED <<sessionVars, codecVars, setupVars, d_schedule, d_connected, d_client>>

\* _send_command: write_gatt_char returned (True) or raised (False)
CommandWritten(o) ==
    /\ d_call.pc = "writing"
    /\ d_call' = [ClientReturn(d_call, IF o = "ok" THEN "True" ELSE "False")
                    EXCEPT !.writes = Append(@, Event("write", d_call.frame, o = "ok"))]
    /\ UNCHANGED <<sessionVars, codecVars, setupVars, d_schedule, d_connected, d_client>>

ClientNext ==
    \/ LinkLost
    \/ Connect
    \/ \E o \in TransportOutcomes : ClientConnected(o)
    \/ \E o \in TransportOutcomes : Subscribed(o)
    \/ \E o \in TransportOutcomes : InitWritten(o)
    \/ InitSleepDone
    \/ Disconnect
    \/ \E o \in TransportOutcomes : Disconnected(o)
    \/ SetSchedule
    \/ \E c \in CommandCalls : ClientCommand(c[1], c[2])
    \/ \E o \in TransportOutcomes : CommandWritten(o)

ClientInit ==
    /\ SessionInit
    /\ CodecIdle
    /\ ClientIdle
    /\ d_schedule \in ScheduleInputs
    /\ SetupIdle

ClientSpec == ClientInit /\ [][ClientNext]_vars

(***************************************************************************)
(* Configuration and setup: the config flow (config_flow.py) creates the   *)
(* entry, the host sets the integration up and runs the async_setup_entry  *)
(* of the three platforms.  A Python str is a sequence of one-character    *)
(* strings.                                                                *)
(***************************************************************************)
LowerOf == ("A" :> "a") @@ ("B" :> "b") @@ ("C" :> "c") @@ ("D" :> "d") @@ ("E" :> "e") @@ ("F" :> "f")
UpperOf == ("a" :> "A") @@ ("b" :> "B") @@ ("c" :> "C") @@ ("d" :> "D") @@ ("e" :> "E") @@ ("f" :> "F")

\* str.lower()
StrLower(s) == [i \in 1..Len(s) |-> IF s[i] \in DOMAIN LowerOf THEN LowerOf[s[i]] ELSE s[i]]

\* str.upper()
StrUpper(s) == [i \in 1..Len(s) |-> IF s[i] \in DOMAIN UpperOf THEN UpperOf[s[i]] ELSE s[i]]

\* s.replace(":", "")
StripColons(s) == SelectSeq(s, LAMBDA c : c # ":")

\* ":" in s
HasColon(s) == \E i \in 1..Len(s) : s[i] = ":"

\* the Python slice s[i:j] for 0 <= i <= j
Slice(s, i, j) == SubSeq(s, i + 1, IF j < Len(s) THEN j ELSE Len(s))

\* ":".join(address[i:i+2].upper() for i in range(0, 12, 2))
JoinUpperPairs(address) ==
    StrUpper(Slice(address, 0, 2)) \o <<":">> \o StrUpper(Slice(address, 2, 4)) \o <<":">> \o
    StrUpper(Slice(address, 4, 6)) \o <<":">> \o StrUpper(Slice(address, 6, 8)) \o <<":">> \o
    StrUpper(Slice(address, 8, 10)) \o <<":">> \o StrUpper(Slice(address, 10, 12))

\* switch.async_setup_entry: the address the session is constructed with
Canonicalize(address) ==
    IF ~HasColon(address) THEN JoinUpperPairs(address) ELSE address

\* the unique id both flow steps derive from an address
UniqueIdOf(address) == StrLower(StripColons(address))

\* device addresses: 12 hexadecimal digits
MacSamples ==
    {<<"E", "4", "6", "6", "E", "5", "6", "9", "9", "1", "8", "1">>,
     <<"A", "B", "C", "D", "E", "F", "0", "1", "2", "3", "4", "5">>,
     <<"1", "2", "3", "4", "5", "6", "7", "8", "9", "0", "0", "0">>}

\* digits in alternating letter case
MixedCase(s) ==
    [i \in 1..Len(s) |-> IF i % 2 = 1 THEN StrLower(<<s[i]>>)[1] ELSE StrUpper(<<s[i]>>)[1]]

\* XX:XX:XX:XX:XX:XX of 12 digits
Colonized(h) ==
    <<h[1], h[2], ":", h[3], h[4], ":", h[5], h[6], ":", h[7], h[8], ":", h[9], h[10], ":",
      h[11], h[12]>>

\* addresses the Bluetooth stack of the host reports for discovered devices
DiscoveredAddresses == {Colonized(h) : h \in MacSamples}

\* addresses a user types into the form: colon-delimited or bare, in upper,
\* lower and mixed case; the discovered ones are offered for selection
UserAddressInputs ==
    UNION {{Colonized(h), StrLower(Colonized(h)), MixedCase(Colonized(h)),
            h, StrLower(h), MixedCase(h)} : h \in MacSamples}

\* async_step_user with user_input: the entry stores the address as entered
async_step_user(address) ==
    /\ s_flow = "none"
    /\ s_unique_id' = UniqueIdOf(address)
    /\ s_entry' = address
    /\ s_flow' = "created"
    /\ UNCHANGED <<sessionVars, codecVars, clientVars, s_hass, s_ble_device, s_platform>>

\* async_step_bluetooth: the unique id is set and the confirmation form shown
async_step_bluetooth(address) ==
    /\ s_flow = "none"
    /\ s_unique_id' = UniqueIdOf(address)
    /\ s_flow' = "confirm"
    /\ UNCHANGED <<sessionVars, codecVars, clientVars, s_entry, s_hass, s_ble_device, s_platform>>

\* async_step_bluetooth_confirm with user_input: the entry stores the unique id
async_step_bluetooth_confirm ==
    /\ s_flow = "confirm"
    /\ s_entry' = s_unique_id
    /\ s_flow' = "created"
    /\ UNCHANGED <<sessionVars, codecVars, clientVars, s_unique_id, s_hass, s_ble_device,
                   s_platform>>

\* the integration's setup of the entry: the entry's address is put under
\* hass.data[DOMAIN][entry_id]["address"], where switch.py reads it
integration_setup_entry ==
    /\ s_entry # NoString
    /\ s_hass = NoString
    /\ s_hass' = s_entry
    /\ UNCHANGED <<sessionVars, codecVars, clientVars, s_flow, s_unique_id, s_entry,
                   s_ble_device, s_platform>>

\* the host runs a platform's async_setup_entry once the integration is set up
CanSetUp(p) == s_hass # NoString /\ s_platform[p] = "pending"

\* switch.async_setup_entry: builds the session and its seven switches
switch_async_setup_entry ==
    /\ CanSetUp("switch")
    /\ s_ble_device' = Canonicalize(s_hass)
    /\ s_platform' = [s_platform EXCEPT !["switch"] = "done"]
    /\ UNCHANGED <<sessionVars, codecVars, clientVars, s_flow, s_unique_id, s_entry, s_hass>>

\* number.async_setup_entry and select.async_setup_entry: KeyError unless
\* the "ble_device" key is there
entity_async_setup_entry(p) ==
    /\ CanSetUp(p)
    /\ s_platform' = [s_platform EXCEPT ![p] = IF s_ble_device = NoString THEN KeyError ELSE "done"]
    /\ UNCHANGED <<sessionVars, codecVars, clientVars, s_flow, s_unique_id, s_entry, s_hass,
                   s_ble_device>>

SetupNext ==
    \/ \E address \in UserAddressInputs : async_step_user(address)
    \/ \E address \in DiscoveredAddresses : async_step_bluetooth(address)
    \/ async_step_bluetooth_confirm
    \/ integration_setup_entry
    \/ switch_async_setup_entry
    \/ entity_async_setup_entry("number")
    \/ entity_async_setup_entry("select")

SetupSpec == Init /\ [][SetupNext]_vars

(***************************************************************************)
(* The session of a configured device: the entry is set up, the switch     *)
(* platform has constructed the session with the entry's address, and the  *)
(* entities are driven as in Spec.                                         *)
(***************************************************************************)
\* the address the docstrings give as the example of a device
ExampleAddress == Colonized(<<"E", "4", "6", "6", "E", "5", "6", "9", "9", "1", "8", "1">>)

\* the state the three platform setups leave, the switch platform first
DeviceConfigured ==
    /\ SessionInit
    /\ CodecIdle
    /\ ClientIdle
    /\ d_schedule = NoSchedule
    /\ s_flow = "created"
    /\ s_unique_id = UniqueIdOf(ExampleAddress)
    /\ s_entry = ExampleAddress
    /\ s_hass = s_entry
    /\ s_ble_device = Canonicalize(s_hass)
    /\ s_platform = [p \in Platforms |-> "done"]

DeviceSpec == DeviceConfigured /\ [][Next]_vars

(***************************************************************************)
(* Properties of the codec and of the catalog.                             *)
(***************************************************************************)
IsFrame(f) == Len(f) >= 6

\* the checksum byte of a frame: the byte before the footer
ChecksumByte(f) == f[Len(f) - 1]

ChecksumHolds(f, cmd, data) ==
    /\ ChecksumByte(f) \in 0..255
    /\ ((1 + Len(data)) + cmd + SumBytes(data) + ChecksumByte(f)) % 256 = 1

C9_CatalogWellFormed ==
    IsFrame(c_frame) =>
        \A e \in Catalog : (e.cmd = c_cmd /\ e.param = c_data) => e.frame = c_frame

\* the known vectors: command, payload, expected frame
KnownVectors ==
    {[cmd |-> 7, data |-> <<16, 1, 0>>, frame |-> <<85, 170, 4, 7, 16, 1, 229, 90>>],
     [cmd |-> 7, data |-> <<16, 0, 0>>, frame |-> <<85, 170, 4, 7, 16, 0, 230, 90>>],
     [cmd |-> 8, data |-> <<>>, frame |-> <<85, 170, 1, 8, 248, 90>>],
     [cmd |-> 71, data |-> <<>>, frame |-> <<85, 170, 1, 71, 185, 90>>],
     [cmd |-> 5, data |-> <<10>>, frame |-> <<85, 170, 2, 5, 10, 240, 90>>],
     [cmd |-> 161, data |-> <<>>, frame |-> <<85, 170, 1, 161, 95, 90>>],
     [cmd |-> 81, data |-> <<>>, frame |-> <<85, 170, 1, 81, 175, 90>>]}

\* C10: on each known vector, const.build_packet and _build_packet return
\* the expected frame.
C10_KnownVectors ==
    \A v \in KnownVectors :
        (v.cmd = c_cmd /\ v.data = c_data) =>
            /\ c_frame # NoFrame => c_frame = v.frame
            /\ c_libframe # NoFrame => c_libframe = v.frame

\* longest payload the length byte is documented for
MaxPayloadLen == 253

\* C11: for every command byte and every payload of at most 253 bytes, the
\* frame that build_packet and _build_packet return parses (header 55 AA,
\* footer 5A, length byte and checksum all verify) and the parse gives back
\* the command and the payload the frame was built from.
C11_RoundTrip ==
    Len(c_data) <= MaxPayloadLen =>
        /\ c_frame # NoFrame =>
              IsFrame(c_frame) /\ parse_frame(c_frame) = Parsed(c_cmd, c_data)
        /\ c_libframe # NoFrame =>
              IsFrame(c_libframe) /\ parse_frame(c_libframe) = Parsed(c_cmd, c_data)

\* C11 witness: both functions built the frame of a 253-byte payload of
\* different bytes and the frame parses back to it.
C11_Witness ==
    /\ Len(c_data) = MaxPayloadLen
    /\ c_data[1] # c_data[2]
    /\ IsFrame(c_frame)
    /\ IsFrame(c_libframe)
    /\ parse_frame(c_frame).ok
    /\ parse_frame(c_libframe).payload = c_data

\* what a build function returned for a payload of n bytes, were n the
\* longest payload it accepts: a frame whose length byte is 1 + len(payload)
\* up to n bytes, an error above
BuildGuardsLength(f, data, n) ==
    f # NoFrame =>
        /\ Len(data) > n => f = Raised(ValueError)
        /\ Len(data) <= n => IsFrame(f) /\ f[3] = 1 + Len(data)
        /\ IsFrame(f) => f[3] = 1 + Len(data)

\* C12 as claimed: build_packet and _build_packet fail whenever the payload
\* has more than 253 bytes (254 and 255 included), return a frame for every
\* payload of at most 253 bytes, and never return a frame whose length byte
\* has wrapped.
C12_FailsAbove253 ==
    /\ BuildGuardsLength(c_frame, c_data, MaxPayloadLen)
    /\ BuildGuardsLength(c_libframe, c_data, MaxPayloadLen)

\* C12 amended: build_packet and _build_packet fail with ValueError whenever
\* the payload has more than 254 bytes, return a frame for every payload of
\* at most 254 bytes (the length byte of 254 bytes is 255), and never return
\* a frame whose length byte has wrapped.
C12_FailsAbove254 ==
    /\ BuildGuardsLength(c_frame, c_data, MaxPayloadLen + 1)
    /\ BuildGuardsLength(c_libframe, c_data, MaxPayloadLen + 1)

\* C12 witness: both functions refused a 255-byte payload.
C12_Witness ==
    /\ Len(c_data) = 255
    /\ c_frame = Raised(ValueError)
    /\ c_libframe = Raised(ValueError)

InDocumentedRanges(sch) ==
    /\ sch.mode_index \in 0..4
    /\ sch.start_hour \in 0..23 /\ sch.end_hour \in 0..23
    /\ sch.start_minute \in 0..59 /\ sch.end_minute \in 0..59
    /\ sch.run_time_sec \in 0..65535 /\ sch.stop_time_sec \in 0..65535
    /\ sch.days \in 0..127

\* x on 16 bits, low byte first
LittleEndian16(x) == <<x % 256, x \div 256>>

\* the 16 payload bytes of the schedule layout
SchedulePayload(sch) ==
    <<sch.mode_index,
      IF sch.enabled THEN 3 ELSE 2,
      sch.days + (IF sch.enabled THEN 128 ELSE 0),
      0>>
    \o LittleEndian16(sch.start_hour * 60 + sch.start_minute)
    \o LittleEndian16(sch.end_hour * 60 + sch.end_minute)
    \o LittleEndian16(sch.run_time_sec)
    \o LittleEndian16(sch.stop_time_sec)
    \o <<0, 0, 0, 0>>

\* C13: a set_schedule of a schedule within the documented ranges does not
\* fail on encoding; when the client is connected it writes exactly one
\* frame, of command 0x14, whose payload is the 16 bytes [mode_index, flags,
\* days|enabled_bit, 0, start, end, run, stop (16 bits little-endian each),
\* 0, 0, 0, 0] with flags 3 if enabled else 2 and bit 7 of the third byte set
\* iff enabled; when it is not connected it writes nothing.
C13_SchedulePayload ==
    (d_call.op = "set_schedule" /\ d_call.pc = "idle" /\ InDocumentedRanges(d_call.arg[1])) =>
        LET sch == d_call.arg[1]
            w == d_call.writes
        IN  /\ d_call.ret \in {"True", "False", ConnectionError}
            /\ d_call.ret = ConnectionError => w = <<>>
            /\ d_call.ret \in {"True", "False"} =>
                 /\ Len(w) = 1
                 /\ Len(w[1].frame) = 22
                 /\ w[1].frame[3] = 17
                 /\ w[1].frame[4] = 20
                 /\ SubSeq(w[1].frame, 5, 20) = SchedulePayload(sch)
                 /\ (w[1].frame[7] >= 128) = sch.enabled

\* C13 witness: an enabled schedule for every day, from 04:16 (256 minutes:
\* low byte 0, high byte 1) to 23:59 (1439 minutes: 9F 05) with the longest
\* run time, was written to the device.
C13_Witness ==
    /\ d_call.op = "set_schedule"
    /\ d_call.ret = "True"
    /\ d_call.arg[1].enabled
    /\ d_call.arg[1].days = 127
    /\ d_call.arg[1].start_hour = 4 /\ d_call.arg[1].start_minute = 16
    /\ d_call.arg[1].run_time_sec = 65535
    /\ SubSeq(d_call.writes[1].frame, 5, 13) = <<0, 3, 255, 0, 0, 1, 159, 5, 255>>

\* C28: connect() returns True only if the connection was opened, the
\* notifications were subscribed and the INIT frame was written without error;
\* when one of the three fails it returns False and is_connected is false
\* afterwards.
C28_ConnectResult ==
    (d_call.op = "connect" /\ d_call.pc = "idle") =>
        /\ d_call.ret \in {"True", "False"}
        /\ d_call.ret = "True" =>
              /\ d_connected
              /\ Len(d_call.writes) = 1
              /\ d_call.writes[1].frame = PACKET_INIT
              /\ d_call.writes[1].ok
        /\ (d_call.writes = <<>> \/ ~d_call.writes[1].ok) =>
              d_call.ret = "False" /\ ~is_connected

\* the command operations of the client
CommandOps == {c[1] : c \in CommandCalls} \cup {"set_schedule"}

\* the script invokes a command operation in this step
CommandInvoked ==
    /\ ClientIdleNow
    /\ d_client' = d_client
    /\ d_call'.op \in CommandOps

\* C29: a command operation (keepalive, get_status, power_on, power_off,
\* set_fan, sync_time, and set_schedule of a schedule within the documented
\* ranges) invoked while is_connected is false (before connect(), after a
\* connect() that returned False, after disconnect(), after the link dropped)
\* raises ConnectionError at once and writes nothing; and when disconnect()
\* has returned, whether BleakClient.disconnect returned or raised,
\* is_connected is false and the client handle is cleared.
C29_NotConnected ==
    [][/\ (/\ CommandInvoked
           /\ ~is_connected
           /\ d_call'.op = "set_schedule" => InDocumentedRanges(d_schedule))
          => /\ d_call'.pc = "idle"
             /\ d_call'.ret = ConnectionError
             /\ d_call'.writes = <<>>
       /\ (d_call'.op = "disconnect" /\ d_call'.pc = "idle")
          => /\ ~is_connected'
             /\ ~d_connected'
             /\ d_client' = "none"]_vars

\* C29 witness: power_on was refused with ConnectionError after a connect()
\* that failed at the subscription: the link is open and _connected is false.
C29_Witness ==
    /\ d_call.op = "power_on"
    /\ d_call.pc = "idle"
    /\ d_call.ret = ConnectionError
    /\ d_call.writes = <<>>
    /\ d_client = "open"
    /\ ~d_connected

(***************************************************************************)
(* Properties of configuration and setup.                                  *)
(***************************************************************************)
HexUpper == {"0", "1", "2", "3", "4", "5", "6", "7", "8", "9", "A", "B", "C", "D", "E", "F"}

\* XX:XX:XX:XX:XX:XX with upper-case hexadecimal digits
IsCanonical(a) ==
    /\ Len(a) = 17
    /\ \A i \in 1..17 : IF i % 3 = 0 THEN a[i] = ":" ELSE a[i] \in HexUpper

\* C15: the address the session is constructed with is upper-case and
\* colon-delimited whatever form the configured address has (colon-delimited
\* or bare, any letter case), two forms of one address give the same session
\* address, and a canonical configured address is handed on unchanged.
C15_CanonicalAddress ==
    s_ble_device # NoString =>
        /\ IsCanonical(s_ble_device)
        /\ StripColons(s_ble_device) = StrUpper(StripColons(s_entry))
        /\ IsCanonical(s_entry) => s_ble_device = s_entry

\* C24: whatever the order in which the host runs the three platform
\* setups, none of them fails; the session is created by the time the first
\* of them is done, so that every entity a platform has added holds the one
\* session of the device.
C24_OneSessionAnyOrder ==
    \A p \in Platforms :
        /\ s_platform[p] \in {"pending", "done"}
        /\ s_platform[p] = "done" => s_ble_device # NoString

(***************************************************************************)
(* Properties of the device session.                                       *)
(***************************************************************************)
\* the write events of a conversation, in order
Writes(conv) == SelectSeq(conv, LAMBDA e : e.op = "write")

\* C1: the conversations of concurrent send_command calls never interleave:
\* at most one call is between its connect and the end of its disconnect,
\* that call holds the lock, and the transport never saw a connect or a
\* write start while another call's conversation was open.
C1_NoInterleaving ==
    /\ Cardinality({t \in Tasks : InConversation(t)}) <= 1
    /\ \A t \in Tasks : InConversation(t) => locked
    /\ ~overlap

\* C1 witness: one call is writing its frame while another call waits for
\* the lock.
C1_Witness ==
    \E t, u \in Tasks : task[t].pc = "write_cmd" /\ task[u].pc = "waiting"

\* C2: on every connection the first frame written is PACKET_INIT whatever
\* frame was requested; the requested frame is the second write and is
\* written only after the INIT write succeeded; nothing is written before
\* the connect succeeded and nothing after the second write.
C2_InitFirst ==
    \A t \in Tasks :
        LET conv == task[t].conv
            w == Writes(conv)
        IN  /\ conv # <<>> => conv[1].op = "connect"
            /\ w # <<>> => conv[1].ok /\ w[1].frame = PACKET_INIT
            /\ Len(w) >= 2 => w[1].ok /\ w[2].frame = task[t].packet
            /\ Len(w) <= 2

\* C2 witness: a call that requested an intensity frame has written
\* PACKET_INIT and then its own frame.
C2_Witness ==
    \E t \in Tasks :
        /\ task[t].kind = "set_intensity"
        /\ task[t].pc = "sleep2"
        /\ Len(Writes(task[t].conv)) = 2
        /\ task[t].packet # PACKET_INIT

\* C3: send_command returns a boolean, and available is true iff no send
\* has completed yet or the most recently completed send succeeded (every
\* transport failure, a connect timeout included, sets available = false).
C3_AvailableIffLastSendOk ==
    /\ available = (lastSend \in {"none", "success"})
    /\ lastSend = "failure" /\ lastCall.result # "none" => lastCall.result \in {"True", "False"}

\* the cache fields the setters own
cacheFields == <<power_on, fan_boost, modes_active, mode, intensity, timer>>

\* task t's setter returns in this step, having called send_command
SetterReturns(t) ==
    /\ task[t].pc # "done"
    /\ task'[t].pc = "done"
    /\ lastCall'.id = t
    /\ lastCall'.kind \in SwitchKinds \cup ValueKinds

\* C4: a setter whose send did not succeed leaves every cache field at the
\* value it had; a field is written only when send_command reported success.
C4_NoUpdateOnFailure ==
    [][\A t \in Tasks :
          SetterReturns(t) /\ lastCall'.result # "True" => UNCHANGED cacheFields]_vars

\* C5: whatever the transport raises, send_command returns a boolean and the
\* setter that called it returns normally.
C5_NoExceptionEscapes ==
    /\ lastCall.result \in {"none", "True", "False"}
    /\ lastCall.ret \in {"none", "normal"}

\* the step in which task t runs the mode-off of switch i
ModeOffStep(t, i) ==
    /\ task[t].pc = "idle"
    /\ lastCall'.id = t
    /\ lastCall'.kind = "mode_off"
    /\ lastCall'.val = i

\* C6: a mode-off of switch i sets modes_active[i] to false whatever it was,
\* takes no lock and starts no transport operation, and leaves available,
\* power_on, fan_boost, timer, intensity, the other mode flags and every
\* other call as they were.
C6_ModeOffLocalOnly ==
    [][\A t \in Tasks : \A i \in ModeIndexes :
          ModeOffStep(t, i) =>
              /\ modes_active'[i] = FALSE
              /\ \A j \in ModeIndexes \ {i} : modes_active'[j] = modes_active[j]
              /\ UNCHANGED <<available, power_on, fan_boost, timer, intensity>>
              /\ UNCHANGED <<locked, waiters, overlap, lastSend>>
              /\ task'[t].conv = <<>>
              /\ \A u \in Tasks \ {t} : task'[u] = task[u]]_vars

\* C6 witness: a mode-off has run on a switch that was on, and the flag is off.
C6_Witness ==
    /\ lastCall.kind = "mode_off"
    /\ lastCall.pre = <<TRUE>>
    /\ modes_active[lastCall.val] = FALSE

\* a setter argument outside its catalog
OutOfRange(kind, arg) ==
    \/ kind = "set_intensity" /\ IntOfTenths(arg[1]) \notin 1..10
    \/ kind = "select_mode" /\ ~InList(MODE_OPTIONS, arg[1])
    \/ kind = "select_timer" /\ ~InList(TIMER_OPTIONS, arg[1])

\* C7: a request with an out-of-range parameter never reaches the lock or the
\* transport (it is neither clamped nor sent) and leaves the cache unchanged.
C7_RejectOutOfRange ==
    /\ \A t \in Tasks :
          OutOfRange(task[t].kind, task[t].arg) =>
              task[t].pc \notin ConversationPcs \cup {"waiting"}
    /\ OutOfRange(lastCall.kind, lastCall.arg) => lastCall.result = "none"
\* task t's setter returns in this step
Returns(t) ==
    /\ task[t].pc # "done"
    /\ task'[t].pc = "done"
    /\ lastCall'.id = t

\* a returned call whose transport operations all succeeded (a mode-off has none)
Succeeded(c) == c.result = "True" \/ c.kind = "mode_off"

\* C14: when a command returns with success and the command that returned
\* before it was the same command (same setter, same argument) and also
\* succeeded, the second return leaves power_on, fan_boost, modes_active,
\* timer, intensity, mode and available as the first left them.
C14_Idempotent ==
    [][\A t \in Tasks :
          (/\ Returns(t)
           /\ Succeeded(lastCall')
           /\ Succeeded(lastCall)
           /\ lastCall'.kind = lastCall.kind
           /\ lastCall'.arg = lastCall.arg)
          => UNCHANGED <<power_on, fan_boost, modes_active, timer, intensity, mode, available>>]_vars

\* C14 witness: the second call, a power-on invoked when the first power-on
\* had already returned and set the cache, has returned with success.
C14_Witness ==
    /\ lastCall.id = 2
    /\ lastCall.kind = "power_on"
    /\ lastCall.pre = <<TRUE>>
    /\ lastCall.result = "True"
    /\ power_on
    /\ available
\* some transport operation of some send_command completes
TransportStep ==
    \E t \in Tasks :
        \/ \E o \in TransportOutcomes : ConnectDone(t, o)
        \/ \E o \in TransportOutcomes : WriteInitDone(t, o)
        \/ \E o \in TransportOutcomes : WriteCmdDone(t, o)
        \/ \E o \in TransportOutcomes : DisconnectDone(t, o)

\* C16: a task that holds or waits for the lock, or has a transport
\* operation behind it, runs a setter a caller invoked (never the host's
\* timer poll, which calls no send_command); and while no setter is in
\* progress the lock is free, nobody waits and no transport operation is
\* pending.
C16_NoBackgroundActivity ==
    /\ \A t \in Tasks :
          (task[t].pc \in ConversationPcs \cup {"waiting"} \/ task[t].conv # <<>>)
              => task[t].kind \in SwitchKinds \cup ValueKinds
    /\ lastCall.kind = "poll" => lastCall.result = "none"
    /\ (\A t \in Tasks : task[t].pc \in {"idle", "done"})
          => ~locked /\ waiters = <<>> /\ ~ENABLED TransportStep

\* C16 witness: the timer polled the number entity after a setter had
\* changed the intensity, and nothing is in progress.
C16_Witness ==
    /\ lastCall.kind = "poll"
    /\ lastCall.val = 7
    /\ \A t \in Tasks : task[t].pc \in {"idle", "done"}
    /\ ~locked
\* the moves of one call: Idle -> (waiting for the lock) -> Connecting ->
\* Handshaking -> Sending -> Disconnecting -> Idle, a failed connect ending
\* the call at once and a failed write going to the disconnect
SendMoves ==
    {<<"idle", "waiting">>, <<"idle", "connecting">>, <<"idle", "done">>,
     <<"waiting", "connecting">>,
     <<"connecting", "write_init">>, <<"connecting", "done">>,
     <<"write_init", "sleep1">>, <<"write_init", "disconnecting">>,
     <<"sleep1", "write_cmd">>,
     <<"write_cmd", "sleep2">>, <<"write_cmd", "disconnecting">>,
     <<"sleep2", "disconnecting">>,
     <<"disconnecting", "done">>}

\* task t's send_command, and with it the setter, returns in this step
SendReturns(t) == SetterReturns(t) /\ lastCall'.result # "none"

\* C17: a call moves only along Idle -> Connecting -> Handshaking -> Sending
\* -> Disconnecting -> Idle; it returns only from a failed connect or from
\* the end of the disconnect (a connection that was opened has been closed);
\* and a call in which a transport operation failed leaves available =
\* false, one in which none failed leaves available = true.
C17_SendStateMachine ==
    [][\A t \in Tasks :
          /\ task'[t].pc # task[t].pc => <<task[t].pc, task'[t].pc>> \in SendMoves
          /\ SendReturns(t) =>
                /\ task[t].pc \in {"connecting", "disconnecting"}
                /\ task[t].pc = "connecting" => lastSend' = "failure"
                /\ lastSend' = "failure" => ~available'
                /\ lastSend' = "success" => available']_vars
\* how many events of a conversation satisfy P
CountEvents(conv, P(_)) == Cardinality({i \in 1..Len(conv) : P(conv[i])})

\* C18: the conversation of a call holds at most one connect, at most one
\* write of PACKET_INIT and at most one write of the requested frame; once an
\* operation has failed nothing but the disconnect follows; and a setter
\* that has returned does nothing more (it called send_command at most once).
C18_SingleAttempt ==
    [][\A t \in Tasks :
          LET conv == task'[t].conv
          IN  /\ CountEvents(conv, LAMBDA e : e.op = "connect") <= 1
              /\ CountEvents(conv, LAMBDA e : e.op = "write" /\ e.frame = PACKET_INIT) <= 1
              /\ CountEvents(conv, LAMBDA e : e.op = "write" /\ e.frame = task'[t].packet) <= 1
              /\ Len(Writes(conv)) <= 2
              /\ \A i, j \in 1..Len(conv) :
                    (i < j /\ ~conv[i].ok) => conv[j].op = "disconnect"
              /\ task[t].pc = "done" => task'[t] = task[t]]_vars

\* C18 witness: the INIT write of a call failed and the call went on to the
\* disconnect without writing anything else.
C18_Witness ==
    \E t \in Tasks :
        /\ task[t].pc = "disconnecting"
        /\ Len(task[t].conv) = 2
        /\ task[t].conv[1].ok
        /\ task[t].conv[2].op = "write"
        /\ ~task[t].conv[2].ok
\* the returned call c assigned its cache field: a mode-off always does, a
\* sending setter when it commits
WroteCache(c) ==
    \/ c.kind = "mode_off"
    \/ c.kind \in SwitchKinds \cup ValueKinds /\ c.result # "none" /\ SetterCommits(c.kind, c.result)

\* C19: every write of available and of a cache field is made by the task
\* that holds the lock.  send_command assigns available first in the
\* returning step, under the lock state the step starts in; the setter
\* assigns its cache field last, after send_command has returned, under the
\* lock state the step ends in.
C19_WritesUnderGate ==
    [][\A t \in Tasks :
          /\ (SendReturns(t) /\ lastCall'.result \in {"True", "False"})
                => locked /\ task[t].pc \in ConversationPcs
          /\ (Returns(t) /\ WroteCache(lastCall'))
                => locked' /\ task'[t].pc \in ConversationPcs]_vars
\* a setter that sends is between its invocation and its return
InFlight(t) == task[t].pc \in ConversationPcs \cup {"waiting"}

\* the cache field the setter of a call targets, as the call recorded it
TargetField(kind, val) ==
    IF kind \in {"power_on", "power_off"} THEN <<power_on>>
    ELSE IF kind \in {"fan_on", "fan_off"} THEN <<fan_boost>>
    ELSE IF kind = "mode_on" THEN <<modes_active[val]>>
    ELSE IF kind = "set_intensity" THEN <<intensity>>
    ELSE IF kind = "select_mode" THEN <<mode>>
    ELSE <<timer>>

Options(list) == {list[i] : i \in 1..Len(list)}

\* a read returned a value of the set S
ReadsIn(r, S) == r.raised = "none" /\ r.value[1] \in S

\* C25: in every reachable state, the initial one included, every entity's
\* state read returns a value: the power, fan-boost and mode switches a
\* boolean, the intensity number a value in 1..10, the timer select one of
\* the timer options and the mode select one of the mode options; no read
\* raises because the session lacks the attribute.
C25_ReadsReturnCachedFields ==
    /\ ReadsIn(PowerSwitch_is_on, BOOLEAN)
    /\ ReadsIn(FanBoostSwitch_is_on, BOOLEAN)
    /\ \A i \in ModeIndexes : ReadsIn(ModeSwitch_is_on(i), BOOLEAN)
    /\ ReadsIn(native_value, 1..10)
    /\ ReadsIn(TimerSelect_current_option, Options(TIMER_OPTIONS))
    /\ ReadsIn(ModeSelect_current_option, Options(MODE_OPTIONS))


\* the cache field a command is an instruction for
FieldName(kind, val) ==
    IF kind \in {"power_on", "power_off"} THEN <<"power_on", 0>>
    ELSE IF kind \in {"fan_on", "fan_off"} THEN <<"fan_boost", 0>>
    ELSE IF kind \in {"mode_on", "mode_off"} THEN <<"modes_active", val>>
    ELSE IF kind = "set_intensity" THEN <<"intensity", 0>>
    ELSE IF kind = "select_mode" THEN <<"mode", 0>>
    ELSE IF kind = "select_timer" THEN <<"timer", 0>>
    ELSE <<"none", 0>>

\* the value the command instructs for its field
Instructed(kind, val) ==
    IF kind \in {"power_on", "fan_on", "mode_on"} THEN <<TRUE>>
    ELSE IF kind \in {"power_off", "fan_off", "mode_off"} THEN <<FALSE>>
    ELSE IF kind = "select_mode" THEN <<<<val>>>>
    ELSE <<val>>

\* the value of that field once the step is taken
FieldAfter(kind, val) ==
    IF kind \in {"power_on", "power_off"} THEN <<power_on'>>
    ELSE IF kind \in {"fan_on", "fan_off"} THEN <<fan_boost'>>
    ELSE IF kind \in {"mode_on", "mode_off"} THEN <<modes_active'[val]>>
    ELSE IF kind = "set_intensity" THEN <<intensity'>>
    ELSE IF kind = "select_mode" THEN <<mode'>>
    ELSE <<timer'>>

\* no setter is waiting for the lock or talking to the device
Quiescent == \A t \in DOMAIN task : task[t].pc \in {"idle", "done"}

\* C21: when a command returns with success and nothing is in flight any
\* more, its field holds the value of the most recently issued successful
\* instruction for that field: the value of the command that returned before
\* it, if that one was issued later, succeeded and is for the same field (a
\* mode-off issued while the mode-on of the same index was in flight), and
\* its own value otherwise.
C21_LastInstructed ==
    [][\A t \in Tasks :
          (Returns(t) /\ Succeeded(lastCall') /\ Quiescent') =>
              IF /\ Succeeded(lastCall)
                 /\ lastCall.id > t
                 /\ FieldName(lastCall.kind, lastCall.val) = FieldName(lastCall'.kind, lastCall'.val)
              THEN FieldAfter(lastCall.kind, lastCall.val) = Instructed(lastCall.kind, lastCall.val)
              ELSE FieldAfter(lastCall'.kind, lastCall'.val)
                     = Instructed(lastCall'.kind, lastCall'.val)]_vars


\* C23: in every state the entity operations can reach, with any inputs and
\* any transport outcomes, intensity is in 1..10, timer is one of 0, 30, 60,
\* 120, 180, modes_active has exactly the five entries 0..4, each a boolean,
\* and the session's address is the one it was constructed with.
C23_CacheDomains ==
    /\ intensity \in 1..10
    /\ timer \in Options(TIMER_VALUES)
    /\ DOMAIN modes_active = 0..4
    /\ \A i \in DOMAIN modes_active : modes_active[i] \in BOOLEAN
    /\ s_ble_device = Canonicalize(s_hass)
    /\ IsCanonical(s_ble_device)

\* C23 witness: the slider value 11.0 was sent as level 10 and stored as 10,
\* after a transport failure or not.
C23_Witness ==
    /\ lastCall.kind = "set_intensity"
    /\ lastCall.arg = <<110>>
    /\ lastCall.result \in {"True", "False"}
    /\ intensity = 10
    /\ s_ble_device = ExampleAddress


\* C22: callers are served in the order in which they arrived at the lock
\* (the order of invocation: a setter reaches `async with self._lock`
\* without suspending).  While a caller that arrived earlier is waiting or
\* talking to the device, no caller that arrived later has connected or
\* written a frame; and the waiters queue in arrival order.
C22_FifoOrder ==
    /\ \A t, u \in QueueTasks :
          (t < u /\ InFlight(t)) => task[u].conv = <<>> /\ ~InConversation(u)
    /\ \A i, j \in 1..Len(waiters) : i < j => waiters[i] < waiters[j]

\* C22 witness: the first caller has returned; the second, which waited for
\* it, has written INIT and its frame while the third is still waiting.
C22_Witness ==
    /\ task[1].pc = "done"
    /\ task[2].pc = "sleep2"
    /\ Len(Writes(task[2].conv)) = 2
    /\ task[3].pc = "waiting"
    /\ waiters = <<3>>
    /\ lastCall.id = 1


\* the on/off value a power or fan-boost frame carries: the byte after the
\* power mode in a power frame, the parameter byte in a fan-boost frame
CarriedValue(frame) == IF frame[4] = CMD_POWER THEN frame[6] = 1 ELSE frame[5] = 1

\* task t's power (resp. fan-boost) command returns with success in this step
ReturnsOk(t, kinds) == Returns(t) /\ lastCall'.kind \in kinds /\ lastCall'.result = "True"

\* C27: when a power or fan-boost command returns with success, its frame
\* has been written to the device, no command still in flight has written
\* anything (its frame is the last one delivered), and the cached power_on
\* (resp. fan_boost) becomes the value that frame carries; and the cached
\* value changes in no other step.  So after concurrent commands that all
\* succeeded the cache holds the value of the frame delivered last.
C27_CacheFollowsDelivery ==
    [][/\ \A t \in QueueTasks :
             ReturnsOk(t, {"power_on", "power_off", "fan_on", "fan_off"}) =>
                 LET w == Writes(task[t].conv)
                 IN  /\ Len(w) = 2
                     /\ w[2].ok
                     /\ w[2].frame = lastCall'.packet
                     /\ \A u \in QueueTasks \ {t} : Writes(task[u].conv) = <<>>
                     /\ FieldAfter(lastCall'.kind, lastCall'.val) = <<CarriedValue(w[2].frame)>>
       /\ power_on' # power_on => \E t \in QueueTasks : ReturnsOk(t, {"power_on", "power_off"})
       /\ fan_boost' # fan_boost => \E t \in QueueTasks : ReturnsOk(t, {"fan_on", "fan_off"})]_vars

\* C27 witness: three commands have been issued and have returned, the third
\* a power-off issued while the cache still showed the power off (before an
\* earlier power-on returned), and the cache shows the power off.
C27_Witness ==
    /\ calls = 3
    /\ Quiescent
    /\ lastCall.id = 3
    /\ lastCall.kind = "power_off"
    /\ lastCall.pre = <<FALSE>>
    /\ lastCall.result = "True"
    /\ lastSend = "success"
    /\ power_on = FALSE


\* C26: send_command releases the lock on every exit path: in the step in
\* which a call returns (True, False after a caught BleakError, or with an
\* exception that propagates) the lock is free again, and it is held only
\* while some call is talking to the device.  When every transport operation
\* eventually returns or raises and the woken waiter is run, every call that
\* has entered send_command eventually returns.
C26_GateReleased ==
    /\ [][\A t \in QueueTasks : (Returns(t) /\ lastCall'.result # "none") => ~locked']_vars
    /\ [](locked => \E t \in QueueTasks : InConversation(t))
    /\ \A t \in QueueTasks : (InFlight(t) ~> task[t].pc = "done")

\* C26 witness: a call has returned with a propagating TimeoutError while
\* another one was waiting; the lock is free for the waiter.
C26_Witness ==
    /\ lastCall.result = TimeoutError
    /\ lastCall.id = 1
    /\ task[2].pc = "waiting"
    /\ ~locked
    /\ waiters = <<2>>

====
